---- MODULE Spec2Model ----
(***************************************************************************)
(* Model of api/verify.py: the POST /verify handler of the license server, *)
(* its signature check, its lazily constructed store client and the        *)
(* licenses / verify_logs tables it reads and writes.                      *)
(*                                                                         *)
(* Strings are sequences of one-character strings, so that strip, split    *)
(* and join are computed as Python computes them.                          *)
(***************************************************************************)
EXTENDS Integers, Sequences, FiniteSets, TLC

\* ------------------------------------------------------------------------
\* Bounds of the model
\* ------------------------------------------------------------------------

\* Server time at the start of a behaviour (unix seconds).
T0 == 1000

\* time.time() advances at most this many seconds during a behaviour.
MaxTicks == 1

\* Requests are taken while verify_logs holds fewer rows than this.
MaxLogs == 2

\* ------------------------------------------------------------------------
\* Program constants
\* ------------------------------------------------------------------------

\* The replay window of step 4, in seconds.
ReplayWindow == 300

\* Seconds per day, the divisor of days_remaining.
SecondsPerDay == 86400

\* timestamp when the body has no such field.
DefaultTimestamp == 0

\* SECRET_KEY, and a key the server does not hold.
SECRET_KEY == "K"
OtherKey == "X"

\* ------------------------------------------------------------------------
\* Python string and list functions
\* ------------------------------------------------------------------------

Whitespace == {" "}

NonAscii == {"~e"}

Digits == <<"0", "1", "2", "3", "4", "5", "6", "7", "8", "9">>

DigitChars == {Digits[i] : i \in 1..10}

DigitVal(c) == (CHOOSE i \in 1..10 : Digits[i] = c) - 1

\* str.lstrip()
RECURSIVE LStrip(_)
LStrip(s) ==
    IF s = <<>> THEN <<>>
    ELSE IF Head(s) \in Whitespace THEN LStrip(Tail(s))
    ELSE s

\* str.rstrip()
RECURSIVE RStrip(_)
RStrip(s) ==
    IF s = <<>> THEN <<>>
    ELSE IF s[Len(s)] \in Whitespace THEN RStrip(SubSeq(s, 1, Len(s) - 1))
    ELSE s

\* str.strip()
Strip(s) == RStrip(LStrip(s))

\* str.split(','): the segments between the commas, empty ones included.
RECURSIVE SplitFrom(_, _)
SplitFrom(s, cur) ==
    IF s = <<>> THEN <<cur>>
    ELSE IF Head(s) = "," THEN <<cur>> \o SplitFrom(Tail(s), <<>>)
    ELSE SplitFrom(Tail(s), Append(cur, Head(s)))

Split(s) == SplitFrom(s, <<>>)

\* ','.join(list)
RECURSIVE Join(_)
Join(l) ==
    IF l = <<>> THEN <<>>
    ELSE IF Len(l) = 1 THEN l[1]
    ELSE l[1] \o <<",">> \o Join(Tail(l))

\* [m.strip() for m in l if m.strip()]
RECURSIVE StripNonEmpty(_)
StripNonEmpty(l) ==
    IF l = <<>> THEN <<>>
    ELSE IF Strip(Head(l)) = <<>> THEN StripNonEmpty(Tail(l))
    ELSE <<Strip(Head(l))>> \o StripNonEmpty(Tail(l))

\* The bound machines as step 10 decodes them from the machine_id column.
Machines(bound_machine) == StripNonEmpty(Split(bound_machine))

\* x in list
InList(x, l) == \E i \in 1..Len(l) : l[i] = x

\* str(n) for n >= 0: the decimal digits of n.
RECURSIVE Decimal(_)
Decimal(n) ==
    IF n < 10 THEN <<Digits[n + 1]>>
    ELSE Append(Decimal(n \div 10), Digits[(n % 10) + 1])

\* int(s) for a str s: defined when s, stripped, is a non-empty digit string.
IntParses(s) ==
    /\ Strip(s) # <<>>
    /\ \A i \in 1..Len(Strip(s)) : Strip(s)[i] \in DigitChars

RECURSIVE DigitsValue(_)
DigitsValue(s) ==
    IF s = <<>> THEN 0
    ELSE 10 * DigitsValue(SubSeq(s, 1, Len(s) - 1)) + DigitVal(s[Len(s)])

IntOf(s) == DigitsValue(Strip(s))

Abs(n) == IF n < 0 THEN -n ELSE n

Max(a, b) == IF a > b THEN a ELSE b

\* ------------------------------------------------------------------------
\* JSON values of the request body
\* ------------------------------------------------------------------------

\* A field of the body: a string, an integer, or absent.
JStr(s) == [t |-> "str", s |-> s, n |-> 0]
JInt(n) == [t |-> "int", s |-> <<>>, n |-> n]
JAbsent == [t |-> "absent", s |-> <<>>, n |-> 0]

\* data.get(field, '') / data.get(field, 0)
GetOr(v, default) == IF v.t = "absent" THEN default ELSE v

\* Python truthiness of a JSON value.
Truthy(v) == IF v.t = "str" THEN v.s # <<>> ELSE v.n # 0

\* ------------------------------------------------------------------------
\* verify_signature
\* ------------------------------------------------------------------------

\* hmac.new(key, msg, sha256).hexdigest(), taken as collision free: the digest
\* names the key and the message it was computed from, and nothing else does.
HexDigest(key, msg) == <<"#", key>> \o msg

\* The signed message with a separator between the fields.
SignedMessageSeparated(license_key, machine_id, timestamp) ==
    license_key \o <<"|">> \o machine_id \o <<"|">> \o Decimal(timestamp)

\* f"{license_key}{machine_id}{timestamp}"
SignedMessage(license_key, machine_id, timestamp) ==
    license_key \o machine_id \o Decimal(timestamp)

\* hmac.compare_digest(a, b) raises TypeError unless b is an ASCII str.
CompareDigestRaises(signature) ==
    \/ signature.t # "str"
    \/ \E i \in 1..Len(signature.s) : signature.s[i] \in NonAscii

verify_signature(license_key, machine_id, timestamp, signature) ==
    LET msg == SignedMessage(license_key, machine_id, timestamp)
        expected == HexDigest(SECRET_KEY, msg)
    IN  expected = signature.s

\* ------------------------------------------------------------------------
\* State
\* ------------------------------------------------------------------------

VARIABLES
    licenses,         \* the licenses table: license_key -> row
    verify_logs,      \* the number of rows of the verify_logs table
    supabase_client,  \* the global _supabase_client: 0 is None, else a client
    created,          \* how many clients create_client has returned
    env_ok,           \* SUPABASE_URL and SUPABASE_KEY are both set
    clock,            \* int(time.time())
    th                \* per thread: the locals of the do_POST it is serving

vars == <<licenses, verify_logs, supabase_client, created, env_ok, clock, th>>

Threads == {1, 2}

\* None, for a time and for the client handle.
NoTime == -1
NoClient == 0

\* The one license key that has a row.
LK == <<"L">>

NoRow ==
    [is_active |-> FALSE, expire_time |-> NoTime, machine_id |-> <<>>,
     max_devices |-> 0, activated_at |-> NoTime]

NoVerdict ==
    [status |-> 0, valid |-> FALSE, message |-> "none",
     expire_time |-> NoTime, days_remaining |-> NoTime]

NoUpdate == [machine_id |-> <<>>, activated_at |-> NoTime]

NoData ==
    [wellformed |-> FALSE, license_key |-> JAbsent, machine_id |-> JAbsent,
     timestamp |-> JAbsent, signature |-> JAbsent]

\* The locals of do_POST before a request is read. checks, reads, writes and
\* inserts record what the call has done: the checks it has evaluated, in
\* order, and its select, update and insert calls that returned. fault is
\* the store call of this request that failed ("config": SUPABASE_URL or
\* SUPABASE_KEY is missing), and failed_before tells that get_supabase
\* could not construct a client for an earlier request of this thread.
IdleLocals ==
    [pc |-> "idle", data |-> NoData,
     license_key |-> <<>>, machine_id |-> <<>>, timestamp |-> 0,
     signature |-> JAbsent, current_time |-> NoTime, supabase |-> NoClient,
     found |-> FALSE, license_info |-> NoRow, before |-> NoRow,
     update |-> NoUpdate, verdict |-> NoVerdict,
     checks |-> <<>>, reads |-> 0, writes |-> 0, inserts |-> 0,
     log_attempts |-> 0, logs_before |-> 0,
     fault |-> "none", failed_before |-> FALSE]

\* ------------------------------------------------------------------------
\* do_POST: responses
\* ------------------------------------------------------------------------

\* send_json_response(status, {'valid': False, 'message': ...})
Reject(l, status, message) ==
    [l EXCEPT !.pc = "done",
              !.verdict = [status |-> status, valid |-> FALSE,
                           message |-> message, expire_time |-> NoTime,
                           days_remaining |-> NoTime]]

\* Success with the remaining days rounded up instead of down.
SuccessRoundsUp(l) ==
    LET expire_time == l.license_info.expire_time
        days_left == Max(0, (expire_time - l.current_time + SecondsPerDay - 1)
                                \div SecondsPerDay)
    IN  [l EXCEPT !.pc = "done",
                  !.verdict = [status |-> 200, valid |-> TRUE,
                               message |-> "ok", expire_time |-> expire_time,
                               days_remaining |-> days_left]]

\* Step 12: the success response.
Success(l) ==
    LET expire_time == l.license_info.expire_time
        days_left == Max(0, (expire_time - l.current_time) \div SecondsPerDay)
    IN  [l EXCEPT !.pc = "done",
                  !.verdict = [status |-> 200, valid |-> TRUE,
                               message |-> "ok", expire_time |-> expire_time,
                               days_remaining |-> days_left]]

\* ------------------------------------------------------------------------
\* do_POST steps 1 to 5: the checks made before the store is touched
\* ------------------------------------------------------------------------

\* Step 2 raises when .strip() is called on a non-string, or int() is given a
\* string that is no integer.
ExtractRaises(data) ==
    \/ data.license_key.t = "int"
    \/ data.machine_id.t = "int"
    \/ (data.timestamp.t = "str" /\ ~IntParses(data.timestamp.s))

\* Steps 1 and 2: read the body and extract the parameters.
Extract(l, data) ==
    IF ~data.wellformed THEN Reject([l EXCEPT !.data = data], 400, "json")
    ELSE IF ExtractRaises(data)
    THEN Reject([l EXCEPT !.data = data], 500, "error")
    ELSE LET ts == GetOr(data.timestamp, JInt(DefaultTimestamp))
         IN  [l EXCEPT
                !.data = data,
                !.pc = "shape",
                !.license_key = Strip(GetOr(data.license_key, JStr(<<>>)).s),
                !.machine_id = Strip(GetOr(data.machine_id, JStr(<<>>)).s),
                !.timestamp = IF ts.t = "int" THEN ts.n ELSE IntOf(ts.s),
                !.signature = GetOr(data.signature, JStr(<<>>))]

\* Step 3: all([license_key, machine_id, signature]).
ShapeCheck(l) ==
    LET l1 == [l EXCEPT !.checks = Append(@, "shape")]
    IN  IF ~(l.license_key # <<>> /\ l.machine_id # <<>> /\ Truthy(l.signature))
        THEN Reject(l1, 400, "incomplete")
        ELSE [l1 EXCEPT !.pc = "replay"]

\* ReplayCheck with the edge of the window excluded.
ReplayCheckExclusive(l, now) ==
    LET l1 == [l EXCEPT !.checks = Append(@, "replay"), !.current_time = now]
        time_diff == Abs(now - l.timestamp)
    IN  IF time_diff >= ReplayWindow
        THEN Reject(l1, 400, "time")
        ELSE [l1 EXCEPT !.pc = "signature"]

\* Step 4: the replay window.
ReplayCheck(l, now) ==
    LET l1 == [l EXCEPT !.checks = Append(@, "replay"), !.current_time = now]
        time_diff == Abs(now - l.timestamp)
    IN  IF time_diff > ReplayWindow
        THEN Reject(l1, 400, "time")
        ELSE [l1 EXCEPT !.pc = "signature"]

\* SignatureCheck that looks the license key up before it compares.
SignatureCheckAfterLookup(l) ==
    LET l1 == [l EXCEPT !.checks = Append(@, "signature")]
    IN  IF l.license_key \notin DOMAIN licenses
        THEN Reject(l1, 404, "notfound")
        ELSE IF CompareDigestRaises(l.signature)
        THEN Reject(l1, 500, "error")
        ELSE IF ~verify_signature(l.license_key, l.machine_id, l.timestamp,
                                  l.signature)
        THEN Reject(l1, 403, "signature")
        ELSE [l1 EXCEPT !.pc = "connect"]

\* Step 5: the signature.
SignatureCheck(l) ==
    LET l1 == [l EXCEPT !.checks = Append(@, "signature")]
    IN  IF CompareDigestRaises(l.signature)
        THEN Reject(l1, 500, "error")
        ELSE IF ~verify_signature(l.license_key, l.machine_id, l.timestamp,
                                  l.signature)
        THEN Reject(l1, 403, "signature")
        ELSE [l1 EXCEPT !.pc = "connect"]

\* PreChecks with the signature checked before the replay window.
PreChecksSignatureFirst(l, data, now) ==
    LET a == Extract(l, data)
    IN  IF a.pc = "done" THEN a
        ELSE LET b == ShapeCheck(a)
             IN  IF b.pc = "done" THEN b
                 ELSE LET c == SignatureCheck([b EXCEPT !.current_time = now])
                      IN  IF c.pc = "done" THEN c
                          ELSE LET d == ReplayCheck(c, now)
                               IN  IF d.pc = "done" THEN d
                                   ELSE [d EXCEPT !.pc = "connect"]

\* Steps 1 to 5 in the order of the code; each failure returns at once.
PreChecks(l, data, now) ==
    LET a == Extract(l, data)
    IN  IF a.pc = "done" THEN a
        ELSE LET b == ShapeCheck(a)
             IN  IF b.pc = "done" THEN b
                 ELSE LET c == ReplayCheck(b, now)
                      IN  IF c.pc = "done" THEN c
                          ELSE SignatureCheck(c)

\* ------------------------------------------------------------------------
\* do_POST steps 7 to 10: the checks made on the row the select returned
\* ------------------------------------------------------------------------

\* Step 7: if not result.data.
FoundCheck(l) ==
    LET l1 == [l EXCEPT !.checks = Append(@, "lookup")]
    IN  IF ~l.found THEN Reject(l1, 404, "notfound")
        ELSE [l1 EXCEPT !.pc = "active"]

\* Step 8: if not license_info.get('is_active', False).
ActiveCheck(l) ==
    LET l1 == [l EXCEPT !.checks = Append(@, "active")]
    IN  IF ~l.license_info.is_active THEN Reject(l1, 403, "disabled")
        ELSE [l1 EXCEPT !.pc = "expiry"]

\* ExpiryCheck with the expiry second itself rejected.
ExpiryCheckInclusive(l) ==
    LET l1 == [l EXCEPT !.checks = Append(@, "expiry")]
        expire_time == l.license_info.expire_time
    IN  IF l.current_time >= expire_time THEN Reject(l1, 403, "expired")
        ELSE [l1 EXCEPT !.pc = "binding"]

\* Step 9: if current_time > expire_time.
ExpiryCheck(l) ==
    LET l1 == [l EXCEPT !.checks = Append(@, "expiry")]
        expire_time == l.license_info.expire_time
    IN  IF l.current_time > expire_time THEN Reject(l1, 403, "expired")
        ELSE [l1 EXCEPT !.pc = "binding"]

\* BindingCheck that does not look the machine up in the bound list.
BindingCheckNoLookup(l) ==
    LET l1 == [l EXCEPT !.checks = Append(@, "binding")]
        bound_machine == l.license_info.machine_id
        max_devices == l.license_info.max_devices
        machines == Machines(bound_machine)
    IN  IF bound_machine # <<>>
        THEN IF Len(machines) >= max_devices
             THEN Reject(l1, 403, "quota")
             ELSE [l1 EXCEPT
                     !.pc = "update",
                     !.update =
                         [machine_id |-> Join(Append(machines, l.machine_id)),
                          activated_at |-> NoTime]]
        ELSE [l1 EXCEPT
                !.pc = "update",
                !.update = [machine_id |-> l.machine_id,
                            activated_at |-> l.current_time]]

\* BindingCheck that stores the new machine alone when it binds it.
BindingCheckReplaces(l) ==
    LET l1 == [l EXCEPT !.checks = Append(@, "binding")]
        bound_machine == l.license_info.machine_id
        max_devices == l.license_info.max_devices
        machines == Machines(bound_machine)
    IN  IF bound_machine # <<>>
        THEN IF ~InList(l.machine_id, machines)
             THEN IF Len(machines) >= max_devices
                  THEN Reject(l1, 403, "quota")
                  ELSE [l1 EXCEPT
                          !.pc = "update",
                          !.update = [machine_id |-> l.machine_id,
                                      activated_at |-> NoTime]]
             ELSE [l1 EXCEPT !.pc = "log"]
        ELSE [l1 EXCEPT
                !.pc = "update",
                !.update = [machine_id |-> l.machine_id,
                            activated_at |-> l.current_time]]

\* BindingCheck that lets one machine more than max_devices in.
BindingCheckOffByOne(l) ==
    LET l1 == [l EXCEPT !.checks = Append(@, "binding")]
        bound_machine == l.license_info.machine_id
        max_devices == l.license_info.max_devices
        machines == Machines(bound_machine)
    IN  IF bound_machine # <<>>
        THEN IF ~InList(l.machine_id, machines)
             THEN IF Len(machines) > max_devices
                  THEN Reject(l1, 403, "quota")
                  ELSE [l1 EXCEPT
                          !.pc = "update",
                          !.update =
                              [machine_id |-> Join(Append(machines, l.machine_id)),
                               activated_at |-> NoTime]]
             ELSE [l1 EXCEPT !.pc = "log"]
        ELSE [l1 EXCEPT
                !.pc = "update",
                !.update = [machine_id |-> l.machine_id,
                            activated_at |-> l.current_time]]

\* Step 10: the device binding. The outcome is a rejection, an update to
\* issue (pc "update"), or nothing to write (pc "log").
BindingCheck(l) ==
    LET l1 == [l EXCEPT !.checks = Append(@, "binding")]
        bound_machine == l.license_info.machine_id
        max_devices == l.license_info.max_devices
        machines == Machines(bound_machine)
    IN  IF bound_machine # <<>>
        THEN IF ~InList(l.machine_id, machines)
             THEN IF Len(machines) >= max_devices
                  THEN Reject(l1, 403, "quota")
                  ELSE [l1 EXCEPT
                          !.pc = "update",
                          !.update =
                              [machine_id |-> Join(Append(machines, l.machine_id)),
                               activated_at |-> NoTime]]
             ELSE [l1 EXCEPT !.pc = "log"]
        ELSE [l1 EXCEPT
                !.pc = "update",
                !.update = [machine_id |-> l.machine_id,
                            activated_at |-> l.current_time]]

\* RowChecks with the expiry looked at before the active flag.
RowChecksExpiryFirst(l) ==
    LET a == FoundCheck(l)
    IN  IF a.pc = "done" THEN a
        ELSE LET b == ExpiryCheck(a)
             IN  IF b.pc = "done" THEN b
                 ELSE LET c == ActiveCheck(b)
                      IN  IF c.pc = "done" THEN c
                          ELSE BindingCheck(c)

\* Steps 7 to 10 in the order of the code; each failure returns at once.
RowChecks(l) ==
    LET a == FoundCheck(l)
    IN  IF a.pc = "done" THEN a
        ELSE LET b == ActiveCheck(a)
             IN  IF b.pc = "done" THEN b
                 ELSE LET c == ExpiryCheck(b)
                      IN  IF c.pc = "done" THEN c
                          ELSE BindingCheck(c)

\* Updated by a store that adds the machines of the update to the list it
\* holds, instead of replacing the column.
UpdatedMerges(row, update) ==
    [row EXCEPT !.machine_id =
                    IF @ = <<>> THEN update.machine_id
                    ELSE Join(Machines(@) \o
                              SelectSeq(Machines(update.machine_id),
                                        LAMBDA m : ~InList(m, Machines(@)))),
                !.activated_at =
                    IF update.activated_at = NoTime THEN @
                    ELSE update.activated_at]

\* update({...}).eq('license_key', key): the row as the update leaves it.
\* The first activation sets activated_at too, a later binding does not.
Updated(row, update) ==
    [row EXCEPT !.machine_id = update.machine_id,
                !.activated_at =
                    IF update.activated_at = NoTime THEN @
                    ELSE update.activated_at]

\* ------------------------------------------------------------------------
\* The request bodies the clients send
\* ------------------------------------------------------------------------

Body(lk, mid, ts, sig) ==
    [wellformed |-> TRUE, license_key |-> lk, machine_id |-> mid,
     timestamp |-> ts, signature |-> sig]

\* The value the server will use for a field.
StrOf(v) == IF v.t = "str" THEN Strip(v.s) ELSE <<>>
IntOfJ(v) ==
    IF v.t = "int" THEN v.n
    ELSE IF v.t = "str" /\ IntParses(v.s) THEN IntOf(v.s)
    ELSE DefaultTimestamp

\* The signature a client holding the secret computes for the fields.
Signed(lk, mid, ts) ==
    JStr(HexDigest(SECRET_KEY, SignedMessage(StrOf(lk), StrOf(mid), IntOfJ(ts))))

\* Signatures that are not the right one: one character changed, the wrong
\* key, the fields in the wrong order, blank, empty, absent, not ASCII, not a
\* string.
Forged(lk, mid, ts) ==
    LET good == Signed(lk, mid, ts).s
    IN  { JStr(SubSeq(good, 1, Len(good) - 1) \o <<"x">>),
          JStr(HexDigest(OtherKey, SignedMessage(StrOf(lk), StrOf(mid), IntOfJ(ts)))),
          JStr(HexDigest(SECRET_KEY, SignedMessage(StrOf(mid), StrOf(lk), IntOfJ(ts)))),
          JStr(<<" ">>), JStr(<<>>), JAbsent,
          JStr(<<"~e">>), JInt(5) }

LicenseKeys == { <<"L">>, <<" ", "L">>, <<"M">> }

MachineIds ==
    { <<"a">>, <<"b">>, <<" ", "a", " ">>, <<"a", ",", "b">>, <<",">> }

\* Timestamps on both sides of the window's two edges.
EdgeTimestamps ==
    { T0 - ReplayWindow - 1, T0 - ReplayWindow, T0 - ReplayWindow + 1,
      T0 + ReplayWindow, T0 + ReplayWindow + 1, T0 + ReplayWindow + 2 }

\* Correctly signed requests inside the window.
GoodBodies ==
    { Body(JStr(lk), JStr(mid), ts, Signed(JStr(lk), JStr(mid), ts)) :
        lk \in LicenseKeys, mid \in MachineIds,
        ts \in {JInt(T0), JStr(Decimal(T0))} }

\* Correctly signed requests around the edges of the window.
TimedBodies ==
    { Body(JStr(LK), JStr(<<"a">>), ts, Signed(JStr(LK), JStr(<<"a">>), ts)) :
        ts \in {JInt(n) : n \in EdgeTimestamps} \cup {JAbsent} }

\* Wrongly signed requests, inside and outside the window.
ForgedBodies ==
    UNION { { Body(JStr(lk), JStr(<<"a">>), ts, sig) :
                sig \in Forged(JStr(lk), JStr(<<"a">>), ts) } :
            lk \in {LK, <<"M">>},
            ts \in {JInt(T0), JInt(T0 - ReplayWindow - 1)} }

\* Requests with missing, blank or mistyped fields.
ShapeBodies ==
    { Body(lk, mid, ts, Signed(lk, mid, ts)) :
        lk \in {JAbsent, JStr(<<" ">>), JInt(7), JStr(LK)},
        mid \in {JAbsent, JStr(<<" ">>), JStr(<<"a">>)},
        ts \in {JInt(T0), JStr(<<"x">>), JInt(T0 - ReplayWindow - 1)} }

Bodies == GoodBodies \cup TimedBodies \cup ForgedBodies \cup ShapeBodies \cup {NoData}

\* ------------------------------------------------------------------------
\* Initial state
\* ------------------------------------------------------------------------

\* The rows the license issuer may have created: not bound, or bound to one
\* machine, within the quota.
InitRows ==
    { [is_active |-> a, expire_time |-> e, machine_id |-> m, max_devices |-> d,
       activated_at |-> IF m = <<>> THEN NoTime ELSE T0 - 1] :
        a \in BOOLEAN, e \in {T0, T0 + SecondsPerDay},
        m \in {<<>>, <<"a">>}, d \in {1, 2} }

Init ==
    /\ licenses \in [{LK} -> InitRows]
    /\ verify_logs = 0
    /\ supabase_client = NoClient
    /\ created = 0
    /\ env_ok \in BOOLEAN
    /\ clock = T0
    /\ th = [t \in Threads |-> IdleLocals]

\* ------------------------------------------------------------------------
\* Actions
\* ------------------------------------------------------------------------

\* time.time() advances.
Tick ==
    /\ clock < T0 + MaxTicks
    /\ clock' = clock + 1
    /\ UNCHANGED <<licenses, verify_logs, supabase_client, created, env_ok, th>>

\* do_POST, lines 94 to 134: thread t reads a request and checks it.
Receive(t, data) ==
    /\ th[t].pc = "idle"
    /\ verify_logs < MaxLogs
    /\ th' = [th EXCEPT ![t] =
                PreChecks([IdleLocals EXCEPT
                             !.before = licenses[LK],
                             !.logs_before = verify_logs,
                             !.failed_before = th[t].failed_before],
                          data, clock)]
    /\ UNCHANGED <<licenses, verify_logs, supabase_client, created, env_ok, clock>>

\* get_supabase, lines 24 to 31 and 48: the handle is set, or the
\* configuration is missing, or a client has to be constructed.
GetSupabase(t) ==
    /\ th[t].pc = "connect"
    /\ th' = [th EXCEPT ![t] =
                IF supabase_client # NoClient
                THEN [@ EXCEPT !.supabase = supabase_client, !.pc = "select"]
                ELSE IF ~env_ok
                THEN Reject([@ EXCEPT !.fault = "config"], 500, "db")
                ELSE [@ EXCEPT !.pc = "create"]]
    /\ UNCHANGED <<licenses, verify_logs, supabase_client, created, env_ok, clock>>

\* get_supabase, lines 33 to 38: create_client returns a new client.
CreateClient(t) ==
    /\ th[t].pc = "create"
    /\ created' = created + 1
    /\ supabase_client' = created + 1
    /\ th' = [th EXCEPT ![t] = [@ EXCEPT !.supabase = created + 1, !.pc = "select"]]
    /\ UNCHANGED <<licenses, verify_logs, env_ok, clock>>

\* CreateClientRaises with the handle assigned before the failure.
CreateClientRaisesKeepsHandle(t) ==
    /\ th[t].pc = "create"
    /\ created' = created + 1
    /\ supabase_client' = created + 1
    /\ th' = [th EXCEPT ![t] = Reject([@ EXCEPT !.fault = "create"], 500, "db")]
    /\ UNCHANGED <<licenses, verify_logs, env_ok, clock>>

\* get_supabase, lines 39 to 46: the import or create_client raises.
CreateClientRaises(t) ==
    /\ th[t].pc = "create"
    /\ th' = [th EXCEPT ![t] = Reject([@ EXCEPT !.fault = "create"], 500, "db")]
    /\ UNCHANGED <<licenses, verify_logs, supabase_client, created, env_ok, clock>>

\* Select with the log row inserted as soon as the row is read, before the
\* checks.
SelectLogsFirst(t) ==
    /\ th[t].pc = "select"
    /\ verify_logs' = verify_logs + 1
    /\ LET key == th[t].license_key
           found == key \in DOMAIN licenses
       IN  th' = [th EXCEPT ![t] =
                    RowChecks([@ EXCEPT
                                 !.reads = @ + 1,
                                 !.found = found,
                                 !.license_info =
                                     IF found THEN licenses[key] ELSE NoRow])]
    /\ UNCHANGED <<licenses, supabase_client, created, env_ok, clock>>

\* do_POST, lines 149 to 196: the select returns, and steps 7 to 10 run on it.
Select(t) ==
    /\ th[t].pc = "select"
    /\ LET key == th[t].license_key
           found == key \in DOMAIN licenses
       IN  th' = [th EXCEPT ![t] =
                    RowChecks([@ EXCEPT
                                 !.reads = @ + 1,
                                 !.found = found,
                                 !.license_info =
                                     IF found THEN licenses[key] ELSE NoRow])]
    /\ UNCHANGED <<licenses, verify_logs, supabase_client, created, env_ok, clock>>

\* The select raises: the catch-all of lines 233 to 240.
SelectRaises(t) ==
    /\ th[t].pc = "select"
    /\ th' = [th EXCEPT ![t] = Reject([@ EXCEPT !.fault = "select"], 500, "error")]
    /\ UNCHANGED <<licenses, verify_logs, supabase_client, created, env_ok, clock>>

\* do_POST, lines 194 to 196 and 200 to 203: the update is applied.
Update(t) ==
    /\ th[t].pc = "update"
    /\ LET key == th[t].license_key
       IN  licenses' =
               IF key \in DOMAIN licenses
               THEN [licenses EXCEPT ![key] = Updated(@, th[t].update)]
               ELSE licenses
    /\ th' = [th EXCEPT ![t] = [@ EXCEPT !.writes = @ + 1, !.pc = "log"]]
    /\ UNCHANGED <<verify_logs, supabase_client, created, env_ok, clock>>

\* The update raises: the catch-all of lines 233 to 240.
UpdateRaises(t) ==
    /\ th[t].pc = "update"
    /\ th' = [th EXCEPT ![t] = Reject([@ EXCEPT !.fault = "update"], 500, "error")]
    /\ UNCHANGED <<licenses, verify_logs, supabase_client, created, env_ok, clock>>

\* do_POST, lines 206 to 225: the log row is inserted, then the success
\* response is sent.
InsertLog(t) ==
    /\ th[t].pc = "log"
    /\ verify_logs' = verify_logs + 1
    /\ th' = [th EXCEPT ![t] =
                Success([@ EXCEPT !.log_attempts = @ + 1, !.inserts = @ + 1])]
    /\ UNCHANGED <<licenses, supabase_client, created, env_ok, clock>>

\* InsertLogRaises without the try of line 206: the failure reaches the
\* catch-all and the request is answered 500.
InsertLogRaisesAborts(t) ==
    /\ th[t].pc = "log"
    /\ th' = [th EXCEPT ![t] =
                Reject([@ EXCEPT !.log_attempts = @ + 1], 500, "error")]
    /\ UNCHANGED <<licenses, verify_logs, supabase_client, created, env_ok, clock>>

\* The insert raises: lines 213 and 214 swallow it, then the success
\* response is sent.
InsertLogRaises(t) ==
    /\ th[t].pc = "log"
    /\ th' = [th EXCEPT ![t] = Success([@ EXCEPT !.log_attempts = @ + 1])]
    /\ UNCHANGED <<licenses, verify_logs, supabase_client, created, env_ok, clock>>

\* do_POST has sent its response and returns: the thread is free again.
Return(t) ==
    /\ th[t].pc = "done"
    /\ th' = [th EXCEPT ![t] =
                [IdleLocals EXCEPT
                   !.failed_before = th[t].failed_before \/ th[t].fault = "create"]]
    /\ UNCHANGED <<licenses, verify_logs, supabase_client, created, env_ok, clock>>

\* One step of the do_POST that thread t is serving, up to its response.
Call(t) ==
    \/ GetSupabase(t)
    \/ CreateClient(t)
    \/ CreateClientRaises(t)
    \/ Select(t)
    \/ SelectRaises(t)
    \/ Update(t)
    \/ UpdateRaises(t)
    \/ InsertLog(t)
    \/ InsertLogRaises(t)

\* One step of thread t: of the call it is serving, or its return.
Step(t) ==
    \/ Call(t)
    \/ Return(t)

\* Requests served one at a time: thread 1 serves them all.
Next ==
    \/ Tick
    \/ \E data \in Bodies : Receive(1, data)
    \/ Step(1)

Spec == Init /\ [][Next]_vars

\* Correctly signed requests of three machines for the license that has a
\* row: what the threads serve when they run side by side.
ConcurrentBodies ==
    { Body(JStr(LK), JStr(mid), JInt(T0), Signed(JStr(LK), JStr(mid), JInt(T0))) :
        mid \in { <<"a">>, <<"b">>, <<"c">> } }

\* Two requests served on their own threads, one per thread: the steps of
\* the two do_POST calls interleave in any order.
NextConcurrent ==
    \/ Tick
    \/ \E t \in Threads : \E data \in ConcurrentBodies : Receive(t, data)
    \/ \E t \in Threads : Call(t)

SpecConcurrent == Init /\ [][NextConcurrent]_vars

\* The fields of the requests whose signatures are compared: two license
\* keys and three machine identifiers, one key a prefix of the other.
SigKeys == { <<"L">>, <<"L", "a">> }
SigMachines == { <<"a">>, <<"b">>, <<"a", "b">> }

\* Correctly signed requests a client sends and an eavesdropper can capture.
SigBodies ==
    { Body(JStr(lk), JStr(mid), JInt(T0), Signed(JStr(lk), JStr(mid), JInt(T0))) :
        lk \in SigKeys, mid \in SigMachines }

\* do_POST, lines 94 to 134: thread t reads a request whose fields are chosen
\* freely and whose signature is the one of the request thread u has read.
ReceiveReplay(t, u, lk, mid, ts) ==
    /\ th[u].pc # "idle"
    /\ Receive(t, Body(JStr(lk), JStr(mid), JInt(ts), th[u].data.signature))

\* A signed request on thread 1 and a request carrying the same signature on
\* thread 2, each served to its end.
NextSig ==
    \/ Tick
    \/ \E data \in SigBodies : Receive(1, data)
    \/ \E lk \in SigKeys : \E mid \in SigMachines :
          ReceiveReplay(2, 1, lk, mid, T0)
    \/ \E t \in Threads : Call(t)

SpecSig == Init /\ [][NextSig]_vars

\* ------------------------------------------------------------------------
\* Vocabulary of the properties
\* ------------------------------------------------------------------------

\* The protocol checks, in the order the specification gives them, and the
\* message each one rejects with.
CheckOrder ==
    <<"shape", "replay", "signature", "lookup", "active", "expiry", "binding">>

MessageOf(check) ==
    CASE check = "shape" -> "incomplete"
      [] check = "replay" -> "time"
      [] check = "signature" -> "signature"
      [] check = "lookup" -> "notfound"
      [] check = "active" -> "disabled"
      [] check = "expiry" -> "expired"
      [] check = "binding" -> "quota"

ProtocolMessages == {MessageOf(CheckOrder[i]) : i \in 1..Len(CheckOrder)}

IsPrefix(s, full) == Len(s) <= Len(full) /\ s = SubSeq(full, 1, Len(s))

Ran(l, check) == InList(check, l.checks)

\* A field of the body is missing, or empty once trimmed.
Blank(v) == v.t = "absent" \/ (v.t = "str" /\ Strip(v.s) = <<>>)

\* The body has its three strings, and they are strings.
HasStrings(data) ==
    /\ data.license_key.t = "str" /\ ~Blank(data.license_key)
    /\ data.machine_id.t = "str" /\ ~Blank(data.machine_id)
    /\ data.signature.t = "str" /\ ~Blank(data.signature)

\* The timestamp of the body is an integer, written as a number or a string.
HasIntTimestamp(data) ==
    \/ data.timestamp.t = "int"
    \/ (data.timestamp.t = "str" /\ IntParses(data.timestamp.s))

\* The request of l is out of the replay window at the time it was evaluated.
Stale(l) == Abs(l.current_time - IntOfJ(l.data.timestamp)) > ReplayWindow

\* The signature of the body is exactly the HMAC of its three fields.
RightlySigned(data) ==
    data.signature = Signed(data.license_key, data.machine_id, data.timestamp)

\* The condition each check of the handler tests, stated on the request as
\* extracted and on the row the select returned.
Fails(l, check) ==
    CASE check = "shape" ->
            \/ StrOf(l.data.license_key) = <<>>
            \/ StrOf(l.data.machine_id) = <<>>
            \/ ~Truthy(GetOr(l.data.signature, JStr(<<>>)))
      [] check = "replay" -> Stale(l)
      [] check = "signature" -> ~RightlySigned(l.data)
      [] check = "lookup" -> l.license_key \notin DOMAIN licenses
      [] check = "active" -> ~l.license_info.is_active
      [] check = "expiry" -> l.current_time > l.license_info.expire_time
      [] check = "binding" ->
            /\ ~InList(l.machine_id, Machines(l.license_info.machine_id))
            /\ Len(Machines(l.license_info.machine_id)) >= l.license_info.max_devices
            /\ l.license_info.machine_id # <<>>

NoDuplicates(list) ==
    \A i, j \in 1..Len(list) : list[i] = list[j] => i = j

\* ------------------------------------------------------------------------
\* C1: quota invariant
\* ------------------------------------------------------------------------

\* C1: in every reachable state of the store, the number of machines in the
\* stored bound list of the license does not exceed its max_devices.
C1_BoundWithinQuota ==
    \A k \in DOMAIN licenses :
        Len(Machines(licenses[k].machine_id)) <= licenses[k].max_devices

\* ------------------------------------------------------------------------
\* C2: the order of the checks
\* ------------------------------------------------------------------------

\* C2: the checks run in the fixed order shape, replay, signature, lookup,
\* active, expiry, binding; a protocol rejection is the verdict of the first
\* failing check and is the last check that ran; the store is read only for
\* a request that passed shape, replay and signature; a request that is both
\* stale and wrongly signed gets the replay window's 400.
C2_ChecksInOrder ==
    \A t \in Threads :
        LET l == th[t]
            n == Len(l.checks)
        IN  /\ IsPrefix(l.checks, CheckOrder)
            /\ (l.pc = "done" /\ l.verdict.message \in ProtocolMessages) =>
                   /\ n > 0
                   /\ ~l.verdict.valid
                   /\ l.verdict.message = MessageOf(l.checks[n])
                   /\ Fails(l, l.checks[n])
                   /\ \A i \in 1..(n - 1) : ~Fails(l, l.checks[i])
            /\ (l.reads > 0) =>
                   /\ n >= 4
                   /\ \A i \in 1..3 : ~Fails(l, CheckOrder[i])
            /\ (l.pc = "done" /\ Ran(l, "replay") /\ Stale(l)
                    /\ ~RightlySigned(l.data)) =>
                   /\ l.verdict.status = 400
                   /\ l.verdict.message = "time"
                   /\ ~Ran(l, "signature")
                   /\ l.reads = 0

\* A stale and wrongly signed request has been answered.
C2_Witness ==
    \E t \in Threads :
        /\ th[t].pc = "done"
        /\ Ran(th[t], "replay")
        /\ Stale(th[t])
        /\ th[t].data.signature.t = "str"
        /\ ~RightlySigned(th[t].data)
        /\ th[t].verdict.message = "time"

\* ------------------------------------------------------------------------
\* C3: shape validation
\* ------------------------------------------------------------------------

\* C3: a request in which license_key, machine_id or signature is missing or
\* empty after trimming, or whose timestamp is no integer, is answered with
\* valid = false and status 400.
C3_MalformedGets400 ==
    \A t \in Threads :
        LET l == th[t]
            d == l.data
        IN  ( /\ l.pc = "done"
              /\ d.wellformed
              /\ d.license_key.t # "int"
              /\ d.machine_id.t # "int"
              /\ d.signature.t # "int"
              /\ \/ Blank(d.license_key)
                 \/ Blank(d.machine_id)
                 \/ Blank(d.signature)
                 \/ ~HasIntTimestamp(d) /\ d.timestamp.t # "absent" )
            => (l.verdict.status = 400 /\ ~l.verdict.valid)

\* ------------------------------------------------------------------------
\* C4: the replay window
\* ------------------------------------------------------------------------

\* C4: a request that passed shape validation, with timestamp ts, evaluated
\* at current_time, is rejected with the replay window's 400 exactly when
\* |current_time - ts| > 300, and goes on to the signature check exactly when
\* |current_time - ts| <= 300.
C4_ReplayWindow ==
    \A t \in Threads :
        LET l == th[t]
            diff == Abs(l.current_time - IntOfJ(l.data.timestamp))
            rejected == /\ l.pc = "done"
                        /\ l.verdict.status = 400
                        /\ l.verdict.message = "time"
                        /\ ~l.verdict.valid
        IN  /\ ( /\ l.pc # "idle"
                 /\ l.data.wellformed
                 /\ ~ExtractRaises(l.data)
                 /\ ~Fails(l, "shape") ) => Ran(l, "replay")
            /\ Ran(l, "replay") =>
                   /\ (diff > ReplayWindow) <=> rejected
                   /\ (diff <= ReplayWindow) <=> Ran(l, "signature")
            /\ rejected => Ran(l, "replay")

\* A request stamped exactly 300 seconds in the future reached the signature
\* check.
C4_Witness ==
    \E t \in Threads :
        /\ Ran(th[t], "signature")
        /\ th[t].timestamp - th[t].current_time = ReplayWindow

\* ------------------------------------------------------------------------
\* C5: the signature
\* ------------------------------------------------------------------------

\* C5: at the signature check, a signature string equal to the HMAC of
\* license_key, machine_id and the decimal timestamp passes, and any other
\* signature string is rejected with valid = false and status 403.
C5_SignatureDecides ==
    \A t \in Threads :
        LET l == th[t]
        IN  (Ran(l, "signature") /\ l.data.signature.t = "str") =>
                /\ RightlySigned(l.data) =>
                       ~(l.pc = "done" /\ Len(l.checks) = 3)
                /\ ~RightlySigned(l.data) =>
                       /\ l.pc = "done"
                       /\ l.verdict.status = 403
                       /\ ~l.verdict.valid

\* ------------------------------------------------------------------------
\* C6: the expiry boundary
\* ------------------------------------------------------------------------

\* C6: a request on an active license, evaluated at current_time, is rejected
\* by the expiry check with valid = false and status 403 exactly when
\* current_time > expire_time; at current_time = expire_time it goes on to
\* the device binding.
C6_ExpiryBoundary ==
    \A t \in Threads :
        LET l == th[t]
            expire_time == l.license_info.expire_time
            rejected == /\ l.pc = "done"
                        /\ l.verdict.status = 403
                        /\ l.verdict.message = "expired"
                        /\ ~l.verdict.valid
        IN  /\ (Ran(l, "active") /\ l.license_info.is_active) => Ran(l, "expiry")
            /\ Ran(l, "expiry") =>
                   /\ (l.current_time > expire_time) <=> rejected
                   /\ (l.current_time <= expire_time) <=> Ran(l, "binding")
            /\ rejected => Ran(l, "expiry")

\* A request evaluated in the very second the license expires was accepted.
C6_Witness ==
    \E t \in Threads :
        /\ th[t].pc = "done"
        /\ th[t].verdict.status = 200
        /\ th[t].current_time = th[t].license_info.expire_time

\* ------------------------------------------------------------------------
\* C7: first activation
\* ------------------------------------------------------------------------

\* C7: a request that reaches the device binding of a row with no bound
\* machine is not rejected by it, whatever its machine_id; once its update
\* has been applied the stored list decodes to exactly that machine_id,
\* activated_at is the request's current_time, and the answer is 200.
C7_FirstActivation ==
    \A t \in Threads :
        LET l == th[t]
        IN  (Ran(l, "binding") /\ l.license_info.machine_id = <<>>) =>
                /\ l.verdict.message # "quota"
                /\ l.writes = 1 =>
                       /\ Machines(licenses[l.license_key].machine_id)
                              = <<l.machine_id>>
                       /\ licenses[l.license_key].activated_at = l.current_time
                       /\ l.pc = "done" =>
                              (l.verdict.status = 200 /\ l.verdict.valid)

\* ------------------------------------------------------------------------
\* C8: idempotence
\* ------------------------------------------------------------------------

\* C8: a request whose machine_id is already in the bound list of the row
\* issues no update: the stored row (bound list and activated_at) is the row
\* it read, and the answer is 200.
C8_Idempotent ==
    \A t \in Threads :
        LET l == th[t]
        IN  ( /\ Ran(l, "binding")
              /\ InList(l.machine_id, Machines(l.license_info.machine_id)) )
            => /\ l.writes = 0
               /\ l.pc \in {"log", "done"}
               /\ licenses[l.license_key] = l.license_info
               /\ l.before = l.license_info
               /\ l.pc = "done" => (l.verdict.status = 200 /\ l.verdict.valid)

\* An already bound machine was verified again with success.
C8_Witness ==
    \E t \in Threads :
        /\ th[t].pc = "done"
        /\ th[t].verdict.status = 200
        /\ InList(th[t].machine_id, Machines(th[t].license_info.machine_id))
        /\ th[t].writes = 0

\* ------------------------------------------------------------------------
\* C9: the device quota
\* ------------------------------------------------------------------------

\* C9: on a row with max_devices = N and N distinct bound machines, a
\* request from a machine that is not in the list is rejected with
\* valid = false and status 403 and leaves the stored row as it was, and a
\* request from a machine in the list is answered 200.
C9_QuotaEnforced ==
    \A t \in Threads :
        LET l == th[t]
            machines == Machines(l.license_info.machine_id)
        IN  ( /\ Ran(l, "binding")
              /\ Len(machines) = l.license_info.max_devices
              /\ NoDuplicates(machines) )
            => IF InList(l.machine_id, machines)
               THEN /\ l.pc \in {"log", "done"}
                    /\ l.pc = "done" => (l.verdict.status = 200 /\ l.verdict.valid)
               ELSE /\ l.pc = "done"
                    /\ l.verdict.status = 403
                    /\ l.verdict.message = "quota"
                    /\ ~l.verdict.valid
                    /\ l.writes = 0
                    /\ licenses[l.license_key] = l.license_info
                    /\ l.before = l.license_info

\* A third machine was turned away from a license with two devices bound.
C9_Witness ==
    \E t \in Threads :
        /\ th[t].pc = "done"
        /\ th[t].verdict.message = "quota"
        /\ th[t].license_info.max_devices = 2
        /\ Len(Machines(th[t].license_info.machine_id)) = 2
        /\ NoDuplicates(Machines(th[t].license_info.machine_id))

\* ------------------------------------------------------------------------
\* C10: the stored list
\* ------------------------------------------------------------------------

\* C10: when a new machine is bound to a row that has bound machines, the
\* stored list is the previous list followed by the new machine_id; and the
\* stored string always decodes to a list without duplicates and has no
\* empty segment.
C10_StoredListWellFormed ==
    /\ \A t \in Threads :
        LET l == th[t]
        IN  (l.writes = 1 /\ l.license_info.machine_id # <<>>) =>
                Machines(licenses[l.license_key].machine_id)
                    = Append(Machines(l.license_info.machine_id), l.machine_id)
    /\ \A k \in DOMAIN licenses :
        LET stored == licenses[k].machine_id
        IN  stored # <<>> =>
                /\ NoDuplicates(Machines(stored))
                /\ \A i \in 1..Len(Split(stored)) : Strip(Split(stored)[i]) # <<>>

\* ------------------------------------------------------------------------
\* C11: the audit log does not decide the verdict
\* ------------------------------------------------------------------------

\* The days a success verdict may report for a license that expires at
\* expire_time, seen at now: the whole days left, and never less than 0.
IsDaysRemaining(d, expire_time, now) ==
    /\ d >= 0
    /\ d * SecondsPerDay <= Max(0, expire_time - now)
    /\ Max(0, expire_time - now) < (d + 1) * SecondsPerDay

\* C11: a request that reaches the accept path makes exactly one insert into
\* verify_logs before it answers, and whether that insert returns or raises
\* the answer is 200, valid, with the row's expire_time and the days left;
\* the binding it wrote is still in the store.
C11_LogFailureIsolated ==
    \A t \in Threads :
        LET l == th[t]
        IN  /\ l.pc = "log" => (l.log_attempts = 0 /\ l.inserts = 0)
            /\ l.pc \in {"connect", "create", "select", "update"} =>
                   l.log_attempts = 0
            /\ (l.pc = "done" /\ Ran(l, "binding")
                    /\ l.verdict.message \notin {"quota", "error"}) =>
                   /\ l.log_attempts = 1
                   /\ l.inserts \in {0, 1}
                   /\ verify_logs = l.logs_before + l.inserts
                   /\ l.verdict.status = 200
                   /\ l.verdict.valid
                   /\ l.verdict.expire_time = l.license_info.expire_time
                   /\ IsDaysRemaining(l.verdict.days_remaining,
                                      l.license_info.expire_time, l.current_time)
                   /\ l.writes = 1 =>
                          licenses[l.license_key].machine_id = l.update.machine_id
            /\ l.log_attempts > 0 => (l.pc = "done" /\ l.verdict.status = 200)

\* A request bound its machine, its log insert raised, and it was answered.
C11_Witness ==
    \E t \in Threads :
        /\ th[t].pc = "done"
        /\ th[t].writes = 1
        /\ th[t].log_attempts = 1
        /\ th[t].inserts = 0
        /\ th[t].verdict.status = 200

\* ------------------------------------------------------------------------
\* C12: unknown and disabled licenses
\* ------------------------------------------------------------------------

\* C12: a request whose select returned is answered 404, not valid, when no
\* row has its license_key, and 403 'disabled', not valid, when the row is
\* not active, whatever the row's expire_time and bound machines are.
C12_NotFoundAndDisabled ==
    \A t \in Threads :
        LET l == th[t]
        IN  /\ l.reads > 0 => Ran(l, "lookup")
            /\ Ran(l, "lookup") =>
                   /\ (l.license_key \notin DOMAIN licenses) =>
                          /\ l.pc = "done"
                          /\ l.verdict.status = 404
                          /\ l.verdict.message = "notfound"
                          /\ ~l.verdict.valid
                   /\ (l.license_key \in DOMAIN licenses
                           /\ ~licenses[l.license_key].is_active) =>
                          /\ l.pc = "done"
                          /\ l.verdict.status = 403
                          /\ l.verdict.message = "disabled"
                          /\ ~l.verdict.valid

\* A disabled license that is also expired and has a machine bound was
\* answered.
C12_Witness ==
    \E t \in Threads :
        /\ th[t].pc = "done"
        /\ th[t].verdict.message = "disabled"
        /\ th[t].current_time > th[t].license_info.expire_time
        /\ th[t].license_info.machine_id # <<>>

\* ------------------------------------------------------------------------
\* C13: the success verdict
\* ------------------------------------------------------------------------

\* C13: every success verdict has status 200, valid = true, the row's
\* expire_time, and days_remaining = max(0, floor((expire_time - now) /
\* 86400)): never negative, and 0 when fewer than 86400 seconds remain.
C13_SuccessVerdict ==
    \A t \in Threads :
        LET l == th[t]
            v == l.verdict
        IN  (l.pc = "done" /\ (v.valid \/ v.status = 200)) =>
                /\ v.status = 200
                /\ v.valid
                /\ l.found
                /\ v.expire_time = l.license_info.expire_time
                /\ IsDaysRemaining(v.days_remaining, v.expire_time, l.current_time)
                /\ (v.expire_time - l.current_time < SecondsPerDay) =>
                       v.days_remaining = 0

\* A license with exactly one day left was verified.
C13_Witness ==
    \E t \in Threads :
        /\ th[t].pc = "done"
        /\ th[t].verdict.status = 200
        /\ th[t].verdict.expire_time - th[t].current_time = SecondsPerDay
        /\ th[t].verdict.days_remaining = 1

\* ------------------------------------------------------------------------
\* C15: no existence oracle
\* ------------------------------------------------------------------------

\* The answer to a request that fails at the signature check, as a function
\* of the request alone.
UnsignedAnswer(data) ==
    [status |-> IF CompareDigestRaises(GetOr(data.signature, JStr(<<>>)))
                THEN 500 ELSE 403,
     valid |-> FALSE,
     message |-> IF CompareDigestRaises(GetOr(data.signature, JStr(<<>>)))
                 THEN "error" ELSE "signature",
     expire_time |-> NoTime, days_remaining |-> NoTime]

\* C15: the answer to a request that fails at the signature check is fixed
\* by the request: it is the same in every state of the store, whether or
\* not a row has its license key, and the request has neither asked for the
\* store client nor read the store.
C15_NoExistenceOracle ==
    \A t \in Threads :
        LET l == th[t]
        IN  (Ran(l, "signature") /\ ~RightlySigned(l.data)) =>
                /\ l.pc = "done"
                /\ l.verdict = UnsignedAnswer(l.data)
                /\ l.reads = 0
                /\ l.supabase = NoClient
                /\ l.fault = "none"

\* A wrongly signed request for a key that has no row was answered 403.
C15_Witness ==
    \E t \in Threads :
        /\ th[t].pc = "done"
        /\ Ran(th[t], "signature")
        /\ ~RightlySigned(th[t].data)
        /\ th[t].license_key \notin DOMAIN licenses
        /\ th[t].verdict.status = 403

\* ------------------------------------------------------------------------
\* C16: store failures fail closed
\* ------------------------------------------------------------------------

\* C16: a request for which the client cannot be constructed, or whose
\* select or update raises, is answered 500 and not valid; a construction
\* that failed leaves the handle unset; and a request that goes on to the
\* store holds the client that is in the handle.
C16_FailsClosed ==
    \A t \in Threads :
        LET l == th[t]
        IN  /\ l.fault # "none" =>
                   /\ l.pc = "done"
                   /\ l.verdict.status = 500
                   /\ ~l.verdict.valid
                   /\ l.log_attempts = 0
            /\ l.fault \in {"config", "create"} =>
                   /\ supabase_client = NoClient
                   /\ l.supabase = NoClient
                   /\ l.reads = 0
            /\ l.fault = "config" => ~env_ok
            /\ l.fault = "update" => licenses[l.license_key] = l.license_info
            /\ (l.pc \in {"select", "update", "log"} \/ l.reads > 0) =>
                   (l.supabase # NoClient /\ l.supabase = supabase_client)
            /\ (l.pc = "done" /\ Ran(l, "signature") /\ Len(l.checks) = 3
                    /\ l.fault = "none") =>
                   l.verdict.message \in {"signature", "error"}

\* create_client raised for an earlier request, and a later request was
\* verified with success.
C16_Witness ==
    \E t \in Threads :
        /\ th[t].failed_before
        /\ th[t].pc = "done"
        /\ th[t].verdict.status = 200
        /\ th[t].supabase = supabase_client

\* ------------------------------------------------------------------------
\* C18: rejections leave the store untouched
\* ------------------------------------------------------------------------

\* C18: a request rejected by a protocol check has issued no update and no
\* insert: the licenses row and the number of log rows are what they were
\* when the request arrived.
C18_RejectionsWriteNothing ==
    \A t \in Threads :
        LET l == th[t]
        IN  ( /\ l.pc = "done"
              /\ ~l.verdict.valid
              /\ l.verdict.message \in ProtocolMessages )
            => /\ l.writes = 0
               /\ l.inserts = 0
               /\ l.log_attempts = 0
               /\ l.update = NoUpdate
               /\ licenses[LK] = l.before
               /\ verify_logs = l.logs_before

\* A request on an expired license was rejected after its row was read.
C18_Witness ==
    \E t \in Threads :
        /\ th[t].pc = "done"
        /\ th[t].verdict.message = "expired"
        /\ th[t].reads = 1
        /\ th[t].before.machine_id # <<>>

\* ------------------------------------------------------------------------
\* C14: the binding race
\* ------------------------------------------------------------------------

SetOf(list) == {list[i] : i \in 1..Len(list)}

\* Threads t and u have both been answered 200 after binding two different
\* machines, each from the same row with one device slot left.
RacedForLastSlot(t, u) ==
    /\ t # u
    /\ th[t].pc = "done" /\ th[t].verdict.status = 200 /\ th[t].writes = 1
    /\ th[u].pc = "done" /\ th[u].verdict.status = 200 /\ th[u].writes = 1
    /\ th[t].license_info = th[u].license_info
    /\ th[t].machine_id # th[u].machine_id
    /\ NoDuplicates(Machines(th[t].license_info.machine_id))
    /\ Len(Machines(th[t].license_info.machine_id))
           = th[t].license_info.max_devices - 1

\* C14: the quota is checked against the row each request read, so a
\* request that binds a new machine had a free slot in the row it read; and
\* when two requests for two machines have both read a row with one slot
\* left and both been answered 200, the machines accepted for the license
\* number max_devices + 1, and the column holds what one of the two wrote.
C14_BindingRace ==
    /\ \A t \in Threads :
        LET l == th[t]
            machines == Machines(l.license_info.machine_id)
        IN  ( /\ l.pc = "update" \/ l.writes = 1
              /\ l.license_info.machine_id # <<>> )
            => /\ ~InList(l.machine_id, machines)
               /\ Len(machines) < l.license_info.max_devices
    /\ \A t, u \in Threads :
        RacedForLastSlot(t, u) =>
            /\ Cardinality(SetOf(Machines(th[t].license_info.machine_id))
                               \cup {th[t].machine_id, th[u].machine_id})
                   = th[t].license_info.max_devices + 1
            /\ licenses[LK].machine_id
                   \in {th[t].update.machine_id, th[u].update.machine_id}

\* Two machines were both accepted for the last slot of a license that
\* already had a machine bound.
C14_Witness ==
    \E t, u \in Threads :
        /\ RacedForLastSlot(t, u)
        /\ th[t].license_info.machine_id # <<>>

\* ------------------------------------------------------------------------
\* C17: the client handle
\* ------------------------------------------------------------------------

\* C17: create_client returns a client at most once, and every request that
\* holds a client holds the one that is in _supabase_client, also when the
\* requests are served side by side.
C17_ClientConstructedOnce ==
    /\ created <= 1
    /\ \A t \in Threads :
        th[t].supabase # NoClient => th[t].supabase = supabase_client

\* ------------------------------------------------------------------------
\* C19: bindings are kept
\* ------------------------------------------------------------------------

\* Every machine of the stored list is in the list after the step.
BindingsKept ==
    \A k \in DOMAIN licenses :
        \A m \in SetOf(Machines(licenses[k].machine_id)) :
            InList(m, Machines(licenses'[k].machine_id))

\* Thread t applies an update it computed from a row that is no longer the
\* stored row.
StaleUpdate(t) ==
    /\ th[t].pc = "update"
    /\ th'[t].writes = th[t].writes + 1
    /\ licenses[th[t].license_key] # th[t].license_info

\* C19, as claimed: no step, under any interleaving of the requests, removes
\* a machine from the stored list.
C19_BindingsNeverLost == [][BindingsKept]_vars

\* C19, amended: a step removes a machine from the stored list only if it is
\* an update computed from a row that another request has changed since.
C19_FreshUpdateKeepsBindings ==
    [][BindingsKept \/ \E t \in Threads : StaleUpdate(t)]_vars

\* A request has added its machine to a list that had a machine, and the
\* list holds both.
C19_Witness ==
    \E t \in Threads :
        /\ th[t].writes = 1
        /\ th[t].license_info.machine_id # <<>>
        /\ th[t].before = th[t].license_info
        /\ licenses[LK].machine_id = th[t].update.machine_id
        /\ \A m \in SetOf(Machines(th[t].license_info.machine_id)) :
               InList(m, Machines(licenses[LK].machine_id))
        /\ InList(th[t].machine_id, Machines(licenses[LK].machine_id))

\* ------------------------------------------------------------------------
\* C20: what a signature covers
\* ------------------------------------------------------------------------

\* The request of l has passed the signature check.
SignaturePassed(l) ==
    /\ Ran(l, "signature")
    /\ ~( /\ l.pc = "done"
          /\ l.fault = "none"
          /\ l.checks[Len(l.checks)] = "signature" )

\* The three fields the handler verifies the signature against.
TripleOf(l) == <<l.license_key, l.machine_id, l.timestamp>>

\* The three fields written one after the other, the timestamp in decimal.
Concatenated(l) == l.license_key \o l.machine_id \o Decimal(l.timestamp)

\* C20, as claimed: a signature that passed the check for one triple of
\* license key, machine identifier and timestamp does not pass it for
\* another triple.
C20_FramingUnambiguous ==
    \A t, u \in Threads :
        ( /\ SignaturePassed(th[t])
          /\ Ran(th[u], "signature")
          /\ th[u].signature = th[t].signature
          /\ TripleOf(th[u]) # TripleOf(th[t]) )
        => ~SignaturePassed(th[u])

\* C20, amended: a signature that passed the check for one triple passes it
\* for another request exactly when the three fields of that request,
\* written one after the other with no separator, give the same string.
C20_SignatureCoversConcatenation ==
    \A t, u \in Threads :
        ( /\ SignaturePassed(th[t])
          /\ Ran(th[u], "signature")
          /\ th[u].signature = th[t].signature )
        => ( SignaturePassed(th[u]) <=> Concatenated(th[u]) = Concatenated(th[t]) )

\* One signature has passed the check for two requests that differ in the
\* license key and the machine identifier.
C20_Witness ==
    \E t, u \in Threads :
        /\ SignaturePassed(th[t])
        /\ SignaturePassed(th[u])
        /\ th[u].signature = th[t].signature
        /\ th[u].license_key # th[t].license_key
        /\ th[u].machine_id # th[t].machine_id

====
